---- MODULE Spec2Model ----
(***************************************************************************)
(* Stopwatch manager (src/app/page.tsx, Page) and the recipe collection    *)
(* service (src/unnamed/part_000, the /api/recipes route handlers).        *)
(*                                                                         *)
(* Spec         the stopwatch page: the list of stopwatches, its           *)
(*              localStorage slot, the rendered times and the host's       *)
(*              wall clock.                                                *)
(* SpecService  the route handlers GET/POST/PUT/DELETE run as concurrent   *)
(*              requests over the one key of the key-value store; every    *)
(*              await of kv.get / kv.set is a step of its own.             *)
(* SpecFormat   format (src/app/page.tsx), the text of a duration, applied *)
(*              to durations drawn from FormatInputs and to their          *)
(*              negations.                                                 *)
(* SpecClient   the recipe client (src/app/page.tsx, RecipeManager): its   *)
(*              state, its handlers, its requests in flight and the        *)
(*              service answering them.                                    *)
(***************************************************************************)
EXTENDS Integers, Sequences, FiniteSets, TLC

(***************************************************************************)
(* Bounds of the model.                                                    *)
(***************************************************************************)
MaxOps == 4      \* handler calls (add, delete, start, stop, reset, rename)
                 \* in one behaviour
MaxTime == 2     \* the clock readings are 0..MaxTime

(* Every id crypto.randomUUID() can have handed out: one for the seed and  *)
(* one per add, and one more that was never handed out.                    *)
Ids == 1..(MaxOps + 2)
Times == 0..MaxTime

(* startedAt: number | null *)
Null == <<>>
Some(t) == <<t>>

Names == {"lap"}

VARIABLES
  stopwatches,  \* useState<Stopwatch[]>: the in-memory list
  slot,         \* localStorage[STORAGE_KEY]: Null when absent, else <<list>>
  phase,        \* "init" before the mount effects, "mounted" between the
                \* effects and the re-render they queue, "ready" afterwards
  pending,      \* the list the load effect handed to setStopwatches
  display,      \* the elapsed values of the last render, one per stopwatch
  renderedAt,   \* the clock reading the last render used
  clock,        \* Date.now() of the host
  nextId,       \* stands for crypto.randomUUID(): the next unused id
  ops,          \* the number of handler calls made so far
  last,         \* history: the handler that ran last, its target id, the
                \* target's condition before it ran and, for a stop, the
                \* target's elapsed before it ran
  acc,          \* history: per id, the elapsed at load/creation/reset plus
                \* the lengths of the running intervals completed since
  runStart,     \* history: per id, the clock reading at which the running
                \* interval in progress began
  had,          \* history: the list a loaded page held when it was closed,
                \* until a page has loaded again
  setBack       \* history: the host's clock has been set back at some time

swvars == <<stopwatches, slot, phase, pending, display, renderedAt, clock,
            nextId, ops, last, acc, runStart, had, setBack>>

(* The state of the recipe collection service. *)
VARIABLES
  kv,        \* the value stored under RECIPES_KEY: Null when absent, else <<list>>
  req,       \* per client: the request in flight or the response it got
  now,       \* Date.now() of the server
  nextRid,   \* stands for crypto.randomUUID(): the next unused recipe id
  begun,     \* history: the number of requests made so far
  acked,     \* history: ids whose Create was answered 201 and whose Delete
             \* has not been answered 200
  gone       \* history: ids whose Delete has been answered 200

svcvars == <<kv, req, now, nextRid, begun, acked, gone>>

(* The rendering of one duration. *)
VARIABLES
  shownMs,      \* the duration, in milliseconds, handed to format
  shownText,    \* Null, or <<format(shownMs)>> once it is rendered
  shownNegText  \* Null, or <<format(-shownMs)>> once it is rendered

fmtvars == <<shownMs, shownText, shownNegText>>

(* The state of the recipe client (RecipeManager). *)
VARIABLES
  recipes,         \* useState<Recipe[]>: the local list
  selectedRecipe,  \* useState<Recipe | null>: Null, or <<the record>>
  isEditing,       \* useState(false)
  isCreating,      \* useState(false)
  editForm,        \* the draft: title and content, each a text
  loading,         \* useState(true)
  error,           \* useState<string | null>: Null, or <<the message>>
  calls,           \* per slot: a request of the client that is in flight,
                   \* with the values its handler captured when it started
  sent,            \* the number of requests the handlers have sent
  clicks,          \* the number of clicks made so far
  did,             \* history: the handler or response callback that ran
                   \* last, whether it went its success path, and its id
  draftFrom,       \* history: the id of the recipe the draft was filled
                   \* from by startEditing, NoId once it was emptied
  failed           \* history: a request of the client has failed

clvars == <<recipes, selectedRecipe, isEditing, isCreating, editForm, loading,
            error, calls, sent, clicks, did, draftFrom, failed>>

(***************************************************************************)
(* The pure transformations of the list, as the setStopwatches updaters    *)
(* compute them.                                                           *)
(***************************************************************************)
DefaultName(n) == "Stopwatch " \o ToString(n)

NewStopwatch(id, n) ==
  [id |-> id, name |-> DefaultName(n), isRunning |-> FALSE,
   startedAt |-> Null, elapsed |-> 0]

(* computedElapsed that forgets the accumulated part while running. *)
computedElapsed_sinceStart(sw, t) ==
  IF sw.isRunning /\ sw.startedAt # Null
    THEN t - sw.startedAt[1]
    ELSE sw.elapsed

(* computedElapsed with the subtraction the wrong way round. *)
computedElapsed_reversed(sw, t) ==
  IF sw.isRunning /\ sw.startedAt # Null
    THEN sw.elapsed + (sw.startedAt[1] - t)
    ELSE sw.elapsed

computedElapsed(sw, t) ==
  IF sw.isRunning /\ sw.startedAt # Null
    THEN sw.elapsed + (t - sw.startedAt[1])
    ELSE sw.elapsed

(* addStopwatch that numbers the new stopwatch by the old length. *)
addStopwatch_nameByLength(prev, id) == Append(prev, NewStopwatch(id, Len(prev)))

addStopwatch(prev, id) == Append(prev, NewStopwatch(id, Len(prev) + 1))

(* deleteStopwatch that also drops what follows the stopwatch it removes. *)
deleteStopwatch_dropsRest(prev, id) ==
  IF \E k \in 1..Len(prev) : prev[k].id = id
    THEN SubSeq(prev, 1, (CHOOSE k \in 1..Len(prev) : prev[k].id = id) - 1)
    ELSE prev

deleteStopwatch(prev, id) == SelectSeq(prev, LAMBDA sw : sw.id # id)

(* start without the !sw.isRunning test: a second start restarts the run. *)
start_restarts(prev, id, t) ==
  [k \in 1..Len(prev) |->
     IF prev[k].id = id
       THEN [prev[k] EXCEPT !.isRunning = TRUE, !.startedAt = Some(t)]
       ELSE prev[k]]

start(prev, id, t) ==
  [k \in 1..Len(prev) |->
     IF prev[k].id = id /\ ~prev[k].isRunning
       THEN [prev[k] EXCEPT !.isRunning = TRUE, !.startedAt = Some(t)]
       ELSE prev[k]]

(* stop that stores the last interval instead of adding it. *)
stop_overwrites(prev, id, t) ==
  [k \in 1..Len(prev) |->
     IF prev[k].id = id /\ prev[k].isRunning /\ prev[k].startedAt # Null
       THEN [prev[k] EXCEPT !.isRunning = FALSE,
                            !.elapsed = t - prev[k].startedAt[1],
                            !.startedAt = Null]
       ELSE prev[k]]

(* stop without the isRunning / startedAt test (now() - null is now()). *)
stop_unguarded(prev, id, t) ==
  [k \in 1..Len(prev) |->
     IF prev[k].id = id
       THEN [prev[k] EXCEPT !.isRunning = FALSE,
                            !.elapsed = prev[k].elapsed +
                               (t - (IF prev[k].startedAt = Null
                                       THEN 0 ELSE prev[k].startedAt[1])),
                            !.startedAt = Null]
       ELSE prev[k]]

(* stop that subtracts the last interval instead of adding it. *)
stop_subtracts(prev, id, t) ==
  [k \in 1..Len(prev) |->
     IF prev[k].id = id /\ prev[k].isRunning /\ prev[k].startedAt # Null
       THEN [prev[k] EXCEPT !.isRunning = FALSE,
                            !.elapsed = prev[k].elapsed - (t - prev[k].startedAt[1]),
                            !.startedAt = Null]
       ELSE prev[k]]

stop(prev, id, t) ==
  [k \in 1..Len(prev) |->
     IF prev[k].id = id /\ prev[k].isRunning /\ prev[k].startedAt # Null
       THEN [prev[k] EXCEPT !.isRunning = FALSE,
                            !.elapsed = prev[k].elapsed + (t - prev[k].startedAt[1]),
                            !.startedAt = Null]
       ELSE prev[k]]

(* reset that leaves startedAt as it was. *)
reset_keepsStartedAt(prev, id) ==
  [k \in 1..Len(prev) |->
     IF prev[k].id = id
       THEN [prev[k] EXCEPT !.elapsed = 0, !.isRunning = FALSE]
       ELSE prev[k]]

(* reset that only clears the accumulated time. *)
reset_elapsedOnly(prev, id) ==
  [k \in 1..Len(prev) |->
     IF prev[k].id = id THEN [prev[k] EXCEPT !.elapsed = 0] ELSE prev[k]]

reset(prev, id) ==
  [k \in 1..Len(prev) |->
     IF prev[k].id = id
       THEN [prev[k] EXCEPT !.elapsed = 0, !.startedAt = Null, !.isRunning = FALSE]
       ELSE prev[k]]

(* rename that gives the name to every stopwatch of the list. *)
rename_all(prev, id, name) ==
  [k \in 1..Len(prev) |-> [prev[k] EXCEPT !.name = name]]

rename(prev, id, name) ==
  [k \in 1..Len(prev) |->
     IF prev[k].id = id THEN [prev[k] EXCEPT !.name = name] ELSE prev[k]]

(* The render: computedElapsed(sw) of every stopwatch of the list. *)
Render(list, t) == [k \in 1..Len(list) |-> computedElapsed(list[k], t)]

(***************************************************************************)
(* The stored form of the list.  JSON.stringify writes, per stopwatch, the *)
(* values of id, name, isRunning, startedAt and elapsed in that order;     *)
(* JSON.parse builds the records back from them.                           *)
(***************************************************************************)
(* stringify that writes null for every startedAt. *)
stringify_dropsStartedAt(list) ==
  [k \in 1..Len(list) |->
     <<list[k].id, list[k].name, list[k].isRunning, Null, list[k].elapsed>>]

stringify(list) ==
  [k \in 1..Len(list) |->
     <<list[k].id, list[k].name, list[k].isRunning, list[k].startedAt,
       list[k].elapsed>>]

parse(raw) ==
  [k \in 1..Len(raw) |->
     [id |-> raw[k][1], name |-> raw[k][2], isRunning |-> raw[k][3],
      startedAt |-> raw[k][4], elapsed |-> raw[k][5]]]

(***************************************************************************)
(* Helpers over the list.                                                  *)
(***************************************************************************)
IdsOf(list) == {list[k].id : k \in 1..Len(list)}

IndexOf(list, id) == CHOOSE k \in 1..Len(list) : list[k].id = id

Was(list, id) ==
  IF id \notin IdsOf(list) THEN "absent"
  ELSE IF list[IndexOf(list, id)].isRunning THEN "running" ELSE "stopped"

(* The ids a handler can be called with: those handed out so far, and one  *)
(* that was not.                                                           *)
Known == 1..nextId

(* A handler call. *)
Call ==
  /\ phase = "ready"
  /\ ops < MaxOps
  /\ ops' = ops + 1

(* A change of the list: re-render, and the persist effect writes the list. *)
Commit(list) ==
  /\ stopwatches' = list
  /\ slot' = Some(stringify(list))
  /\ display' = Render(list, clock)
  /\ renderedAt' = clock

(***************************************************************************)
(* Initial state: first visit, nothing stored, nothing rendered.           *)
(***************************************************************************)
InitSW ==
  /\ stopwatches = <<>>
  /\ slot = Null
  /\ phase = "init"
  /\ pending = <<>>
  /\ display = <<>>
  /\ renderedAt = 0
  /\ clock = 0
  /\ nextId = 1
  /\ ops = 0
  /\ last = [op |-> "none", id |-> 0, was |-> "absent", pre |-> 0]
  /\ acc = [i \in Ids |-> 0]
  /\ runStart = [i \in Ids |-> Null]
  /\ had = Null
  /\ setBack = FALSE

(***************************************************************************)
(* Mount: the load effect reads the slot and queues setStopwatches (the    *)
(* stored list, or one default stopwatch when the slot is absent); the     *)
(* persist effect of the same commit writes the list of the first render,  *)
(* which is empty.                                                         *)
(***************************************************************************)
MountEffects ==
  /\ phase = "init"
  /\ IF slot # Null
       THEN pending' = parse(slot[1]) /\ nextId' = nextId
       ELSE /\ pending' = <<NewStopwatch(nextId, 1)>>
            /\ nextId' = nextId + 1
  /\ slot' = Some(stringify(stopwatches))
  /\ phase' = "mounted"
  /\ last' = [op |-> "mount", id |-> 0,
              was |-> IF slot # Null THEN "stored" ELSE "absent", pre |-> 0]
  /\ UNCHANGED <<stopwatches, display, renderedAt, clock, ops, acc, runStart,
                 had, setBack>>
  /\ UNCHANGED <<svcvars, fmtvars, clvars>>

(* The re-render with the loaded list, and its persist effect. *)
ApplyLoaded ==
  /\ phase = "mounted"
  /\ Commit(pending)
  /\ phase' = "ready"
  /\ pending' = <<>>
  /\ last' = [op |-> "load", id |-> 0, was |-> last.was, pre |-> 0]
  /\ had' = Null
  /\ acc' = [i \in Ids |->
               IF i \in IdsOf(pending)
                 THEN pending[IndexOf(pending, i)].elapsed ELSE 0]
  /\ runStart' = [i \in Ids |->
                    IF i \in IdsOf(pending)
                      THEN pending[IndexOf(pending, i)].startedAt ELSE Null]
  /\ UNCHANGED <<clock, nextId, ops, setBack>>
  /\ UNCHANGED <<svcvars, fmtvars, clvars>>

(* The page is closed or reloaded: memory is gone, the slot stays. *)
Reload ==
  /\ phase # "init"
  /\ stopwatches' = <<>>
  /\ display' = <<>>
  /\ pending' = <<>>
  /\ phase' = "init"
  /\ last' = [op |-> "reload", id |-> 0, was |-> "absent", pre |-> 0]
  /\ had' = IF phase = "ready" THEN Some(stopwatches) ELSE had
  /\ acc' = [i \in Ids |-> 0]
  /\ runStart' = [i \in Ids |-> Null]
  /\ UNCHANGED <<slot, renderedAt, clock, nextId, ops, setBack>>
  /\ UNCHANGED <<svcvars, fmtvars, clvars>>

(***************************************************************************)
(* The handlers of the page.                                               *)
(***************************************************************************)
Add ==
  /\ Call
  /\ Commit(addStopwatch(stopwatches, nextId))
  /\ nextId' = nextId + 1
  /\ last' = [op |-> "add", id |-> nextId, was |-> "absent", pre |-> 0]
  /\ acc' = [acc EXCEPT ![nextId] = 0]
  /\ runStart' = [runStart EXCEPT ![nextId] = Null]
  /\ UNCHANGED <<phase, pending, clock, had, setBack>>
  /\ UNCHANGED <<svcvars, fmtvars, clvars>>

Delete(id) ==
  /\ Call
  /\ Commit(deleteStopwatch(stopwatches, id))
  /\ last' = [op |-> "delete", id |-> id, was |-> Was(stopwatches, id), pre |-> 0]
  /\ acc' = [acc EXCEPT ![id] = 0]
  /\ runStart' = [runStart EXCEPT ![id] = Null]
  /\ UNCHANGED <<phase, pending, clock, nextId, had, setBack>>
  /\ UNCHANGED <<svcvars, fmtvars, clvars>>

Start(id) ==
  /\ Call
  /\ Commit(start(stopwatches, id, clock))
  /\ last' = [op |-> "start", id |-> id, was |-> Was(stopwatches, id), pre |-> 0]
  /\ runStart' = IF Was(stopwatches, id) = "stopped"
                   THEN [runStart EXCEPT ![id] = Some(clock)] ELSE runStart
  /\ UNCHANGED <<phase, pending, clock, nextId, acc, had, setBack>>
  /\ UNCHANGED <<svcvars, fmtvars, clvars>>

Stop(id) ==
  /\ Call
  /\ Commit(stop(stopwatches, id, clock))
  /\ last' = [op |-> "stop", id |-> id, was |-> Was(stopwatches, id),
              pre |-> IF id \in IdsOf(stopwatches)
                        THEN stopwatches[IndexOf(stopwatches, id)].elapsed ELSE 0]
  /\ IF Was(stopwatches, id) = "running"
       THEN /\ acc' = [acc EXCEPT ![id] = @ + (clock - runStart[id][1])]
            /\ runStart' = [runStart EXCEPT ![id] = Null]
       ELSE UNCHANGED <<acc, runStart>>
  /\ UNCHANGED <<phase, pending, clock, nextId, had, setBack>>
  /\ UNCHANGED <<svcvars, fmtvars, clvars>>

Reset(id) ==
  /\ Call
  /\ Commit(reset(stopwatches, id))
  /\ last' = [op |-> "reset", id |-> id, was |-> Was(stopwatches, id), pre |-> 0]
  /\ IF id \in IdsOf(stopwatches)
       THEN /\ acc' = [acc EXCEPT ![id] = 0]
            /\ runStart' = [runStart EXCEPT ![id] = Null]
       ELSE UNCHANGED <<acc, runStart>>
  /\ UNCHANGED <<phase, pending, clock, nextId, had, setBack>>
  /\ UNCHANGED <<svcvars, fmtvars, clvars>>

Rename(id, name) ==
  /\ Call
  /\ Commit(rename(stopwatches, id, name))
  /\ last' = [op |-> "rename", id |-> id, was |-> Was(stopwatches, id), pre |-> 0]
  /\ UNCHANGED <<phase, pending, clock, nextId, acc, runStart, had, setBack>>
  /\ UNCHANGED <<svcvars, fmtvars, clvars>>

(***************************************************************************)
(* The display loop: the 20 ms interval and the visibilitychange / focus   *)
(* listeners call setTick(Date.now()), which re-renders the times and      *)
(* touches nothing else.                                                   *)
(***************************************************************************)
Tick ==
  /\ phase = "ready"
  /\ display' = Render(stopwatches, clock)
  /\ renderedAt' = clock
  /\ last' = [op |-> "tick", id |-> 0, was |-> "absent", pre |-> 0]
  /\ UNCHANGED <<stopwatches, slot, phase, pending, clock, nextId, ops,
                 acc, runStart, had, setBack>>
  /\ UNCHANGED <<svcvars, fmtvars, clvars>>

(***************************************************************************)
(* The host's wall clock.  Date.now() follows the system time: it          *)
(* advances, and it is set back when the system time is corrected.         *)
(***************************************************************************)
ClockAdvance ==
  /\ clock < MaxTime
  /\ clock' = clock + 1
  /\ UNCHANGED <<stopwatches, slot, phase, pending, display, renderedAt,
                 nextId, ops, last, acc, runStart, had, setBack>>
  /\ UNCHANGED <<svcvars, fmtvars, clvars>>

ClockSetBack ==
  /\ \E t \in Times : t < clock /\ clock' = t
  /\ setBack' = TRUE
  /\ UNCHANGED <<stopwatches, slot, phase, pending, display, renderedAt,
                 nextId, ops, last, acc, runStart, had>>
  /\ UNCHANGED <<svcvars, fmtvars, clvars>>

Next ==
  \/ MountEffects
  \/ ApplyLoaded
  \/ Reload
  \/ Add
  \/ \E id \in Known : Delete(id)
  \/ \E id \in Known : Start(id)
  \/ \E id \in Known : Stop(id)
  \/ \E id \in Known : Reset(id)
  \/ \E id \in Known, name \in Names : Rename(id, name)
  \/ Tick
  \/ ClockAdvance
  \/ ClockSetBack

(***************************************************************************)
(* The recipe collection service.  Each request runs its handler as a      *)
(* process of its own; the handler's awaits of kv.get and kv.set are the   *)
(* points where other requests run.                                        *)
(***************************************************************************)
MaxClients == 2     \* requests that can be in flight together
MaxRequests == 3    \* requests made in one behaviour

Clients == 1..MaxClients

(* Every id crypto.randomUUID() can have handed out: one per request. *)
RecipeIds == 1..MaxRequests

(* A body field or query parameter that is absent; an empty string is the  *)
(* other falsy value a client can send.  An id is a number here, and the   *)
(* absent or empty id is NoId.                                             *)
Missing == "undefined"
NoId == 0
Titles == {"Tea", "Chai"}
Contents == {"Boil water"}
Falsy(x) == x \in {Missing, ""}
FalsyId(id) == id = NoId

(* A request slot.  must, after and lost are history: the recipes that had *)
(* been acknowledged and the ids whose Delete had been answered when the   *)
(* request arrived, and the acknowledged recipes a List did not return.    *)
Idle ==
  [method |-> "none", pc |-> "idle", id |-> NoId, title |-> Missing,
   content |-> Missing, recipes |-> <<>>, status |-> 0, result |-> <<>>,
   must |-> {}, after |-> {}, lost |-> {}]

RecipeIdsOf(list) == {list[k].id : k \in 1..Len(list)}

(* kv.get<Recipe[]>(RECIPES_KEY) || [] *)
Stored == IF kv = Null THEN <<>> ELSE kv[1]

(* recipes.findIndex(r => r.id === id), 0 standing for -1 *)
findIndex_orLast(list, id) ==
  IF \E k \in 1..Len(list) : list[k].id = id
    THEN CHOOSE k \in 1..Len(list) :
           /\ list[k].id = id
           /\ \A j \in 1..(k - 1) : list[j].id # id
    ELSE Len(list)

findIndex(list, id) ==
  IF \E k \in 1..Len(list) : list[k].id = id
    THEN CHOOSE k \in 1..Len(list) :
           /\ list[k].id = id
           /\ \A j \in 1..(k - 1) : list[j].id # id
    ELSE 0

(* recipes.push(newRecipe) *)
push_front(list, newRecipe) == <<newRecipe>> \o list

push(list, newRecipe) == Append(list, newRecipe)

(* recipes.filter(r => r.id !== id) *)
filteredRecipes_keepsId(list, id) == SelectSeq(list, LAMBDA r : r.id = id)

filteredRecipes(list, id) == SelectSeq(list, LAMBDA r : r.id # id)

(* { ...recipes[index], title, content, updatedAt: Date.now() } *)
updated_fromScratch(recipe, title, content, t) ==
  [id |-> recipe.id, title |-> title, content |-> content,
   createdAt |-> t, updatedAt |-> t]

updated(recipe, title, content, t) ==
  [recipe EXCEPT !.title = title, !.content = content, !.updatedAt = t]

(* The handler returns its response; its local list is gone. *)
Respond(c, status, result) ==
  [req[c] EXCEPT !.pc = "done", !.status = status, !.result = result,
                 !.recipes = <<>>]

InitService ==
  /\ kv = Null
  /\ req = [c \in Clients |-> Idle]
  /\ now = 0
  /\ nextRid = 1
  /\ begun = 0
  /\ acked = {}
  /\ gone = {}

(* The ids a request can name: those handed out so far, and one that was   *)
(* not.                                                                    *)
Asked == 1..nextRid

(* A request arrives: the handler runs up to its first await of the store. *)
Arrive(c, r) ==
  /\ req[c].pc \in {"idle", "done"}
  /\ begun < MaxRequests
  /\ begun' = begun + 1
  /\ req' = [req EXCEPT ![c] = r]
  /\ UNCHANGED <<kv, now, nextRid, acked, gone>>
  /\ UNCHANGED <<swvars, fmtvars, clvars>>

BeginGET(c) ==
  Arrive(c, [Idle EXCEPT !.method = "GET", !.pc = "get", !.must = acked])

BeginPOST_titleOnly(c, title, content) ==
  Arrive(c, IF Falsy(title)
              THEN [Idle EXCEPT !.method = "POST", !.title = title,
                                !.content = content, !.pc = "done",
                                !.status = 400]
              ELSE [Idle EXCEPT !.method = "POST", !.title = title,
                                !.content = content, !.pc = "get"])

BeginPOST(c, title, content) ==
  Arrive(c, IF Falsy(title) \/ Falsy(content)
              THEN [Idle EXCEPT !.method = "POST", !.title = title,
                                !.content = content, !.pc = "done",
                                !.status = 400]
              ELSE [Idle EXCEPT !.method = "POST", !.title = title,
                                !.content = content, !.pc = "get"])

BeginPUT(c, id, title, content) ==
  Arrive(c, IF FalsyId(id) \/ Falsy(title) \/ Falsy(content)
              THEN [Idle EXCEPT !.method = "PUT", !.id = id, !.title = title,
                                !.content = content, !.pc = "done",
                                !.status = 400]
              ELSE [Idle EXCEPT !.method = "PUT", !.id = id, !.title = title,
                                !.content = content, !.pc = "get"])

BeginDELETE(c, id) ==
  Arrive(c, IF FalsyId(id)
              THEN [Idle EXCEPT !.method = "DELETE", !.id = id, !.pc = "done",
                                !.status = 400]
              ELSE [Idle EXCEPT !.method = "DELETE", !.id = id, !.pc = "get",
                                !.after = gone])

(* A failure of kv.set that has stored the list before it is reported. *)
StoreFails_afterWrite(c) ==
  /\ req[c].pc \in {"get", "set"}
  /\ req' = [req EXCEPT ![c] = Respond(c, 500, <<>>)]
  /\ kv' = IF req[c].pc = "set" THEN Some(req[c].recipes) ELSE kv
  /\ UNCHANGED <<now, nextRid, begun, acked, gone>>
  /\ UNCHANGED <<swvars, fmtvars, clvars>>

(* kv.get or kv.set throws: the handler's catch answers 500 (GET with []). *)
StoreFails(c) ==
  /\ req[c].pc \in {"get", "set"}
  /\ req' = [req EXCEPT ![c] = Respond(c, 500, <<>>)]
  /\ UNCHANGED <<kv, now, nextRid, begun, acked, gone>>
  /\ UNCHANGED <<swvars, fmtvars, clvars>>

(* GET: kv.get resolves, the list is the response. *)
GetGET(c) ==
  /\ req[c].method = "GET" /\ req[c].pc = "get"
  /\ req' = [req EXCEPT ![c] =
               [Respond(c, 200, Stored) EXCEPT
                  !.lost = (req[c].must \cap acked) \ RecipeIdsOf(Stored)]]
  /\ UNCHANGED <<kv, now, nextRid, begun, acked, gone>>
  /\ UNCHANGED <<swvars, fmtvars, clvars>>

(* POST: kv.get resolves; the new record is built, with one Date.now() for *)
(* createdAt and a second one for updatedAt, and pushed on the list read.  *)
GetPOST(c) ==
  /\ req[c].method = "POST" /\ req[c].pc = "get"
  /\ \E t2 \in {now, now + 1} :
        /\ t2 <= MaxTime
        /\ LET newRecipe == [id |-> nextRid, title |-> req[c].title,
                             content |-> req[c].content,
                             createdAt |-> now, updatedAt |-> t2]
           IN req' = [req EXCEPT ![c] =
                        [req[c] EXCEPT !.pc = "set",
                                       !.recipes = push(Stored, newRecipe),
                                       !.result = newRecipe]]
        /\ now' = t2
  /\ nextRid' = nextRid + 1
  /\ UNCHANGED <<kv, begun, acked, gone>>
  /\ UNCHANGED <<swvars, fmtvars, clvars>>

(* POST: kv.set resolves, the answer is 201 with the new record. *)
SetPOST(c) ==
  /\ req[c].method = "POST" /\ req[c].pc = "set"
  /\ kv' = Some(req[c].recipes)
  /\ req' = [req EXCEPT ![c] = Respond(c, 201, req[c].result)]
  /\ acked' = acked \cup {req[c].result.id}
  /\ UNCHANGED <<now, nextRid, begun, gone>>
  /\ UNCHANGED <<swvars, fmtvars, clvars>>

(* PUT: kv.get resolves; 404 when the id is not in the list read, else the *)
(* entry is replaced in the list read.                                     *)
GetPUT(c) ==
  /\ req[c].method = "PUT" /\ req[c].pc = "get"
  /\ LET read == Stored
         index == findIndex(read, req[c].id)
     IN IF index = 0
          THEN req' = [req EXCEPT ![c] = Respond(c, 404, <<>>)]
          ELSE req' = [req EXCEPT ![c] =
                         [req[c] EXCEPT
                            !.pc = "set",
                            !.recipes = [read EXCEPT ![index] =
                                           updated(read[index], req[c].title,
                                                   req[c].content, now)],
                            !.result = updated(read[index], req[c].title,
                                               req[c].content, now)]]
  /\ UNCHANGED <<kv, now, nextRid, begun, acked, gone>>
  /\ UNCHANGED <<swvars, fmtvars, clvars>>

(* PUT: kv.set resolves, the answer is 200 with the updated record. *)
SetPUT(c) ==
  /\ req[c].method = "PUT" /\ req[c].pc = "set"
  /\ kv' = Some(req[c].recipes)
  /\ req' = [req EXCEPT ![c] = Respond(c, 200, req[c].result)]
  /\ UNCHANGED <<now, nextRid, begun, acked, gone>>
  /\ UNCHANGED <<swvars, fmtvars, clvars>>

(* DELETE: kv.get resolves; 404 when the filter removed nothing. *)
GetDELETE(c) ==
  /\ req[c].method = "DELETE" /\ req[c].pc = "get"
  /\ LET read == Stored
         filtered == filteredRecipes(read, req[c].id)
     IN IF Len(read) = Len(filtered)
          THEN req' = [req EXCEPT ![c] = Respond(c, 404, <<>>)]
          ELSE req' = [req EXCEPT ![c] =
                         [req[c] EXCEPT !.pc = "set",
                                        !.recipes = filtered]]
  /\ UNCHANGED <<kv, now, nextRid, begun, acked, gone>>
  /\ UNCHANGED <<swvars, fmtvars, clvars>>

(* DELETE: kv.set resolves, the answer is 200 {success: true}. *)
SetDELETE(c) ==
  /\ req[c].method = "DELETE" /\ req[c].pc = "set"
  /\ kv' = Some(req[c].recipes)
  /\ req' = [req EXCEPT ![c] = Respond(c, 200, <<>>)]
  /\ acked' = acked \ {req[c].id}
  /\ gone' = gone \cup {req[c].id}
  /\ UNCHANGED <<now, nextRid, begun>>
  /\ UNCHANGED <<swvars, fmtvars, clvars>>

(* Time passes on the server. *)
ServerClockAdvance ==
  /\ now < MaxTime
  /\ now' = now + 1
  /\ UNCHANGED <<kv, req, nextRid, begun, acked, gone>>
  /\ UNCHANGED <<swvars, fmtvars, clvars>>

NextService ==
  \/ \E c \in Clients : BeginGET(c)
  \/ \E c \in Clients, title \in Titles \cup {Missing, ""},
        content \in Contents \cup {Missing, ""} : BeginPOST(c, title, content)
  \/ \E c \in Clients, id \in Asked \cup {NoId},
        title \in Titles \cup {Missing, ""},
        content \in Contents \cup {Missing, ""} : BeginPUT(c, id, title, content)
  \/ \E c \in Clients, id \in Asked \cup {NoId} : BeginDELETE(c, id)
  \/ \E c \in Clients : StoreFails(c)
  \/ \E c \in Clients : GetGET(c)
  \/ \E c \in Clients : GetPOST(c)
  \/ \E c \in Clients : SetPOST(c)
  \/ \E c \in Clients : GetPUT(c)
  \/ \E c \in Clients : SetPUT(c)
  \/ \E c \in Clients : GetDELETE(c)
  \/ \E c \in Clients : SetDELETE(c)
  \/ ServerClockAdvance

(***************************************************************************)
(* format(ms): the text of a duration.  A text is the sequence of its      *)
(* characters.                                                             *)
(***************************************************************************)
MaxMs == 1200      \* every duration 0..MaxMs is formatted

HourMs == 3600000
MinuteMs == 60000
SecondMs == 1000
HundredthMs == 10
PadWidth == 2

(* Durations around the places where a field of the text rolls over. *)
HoursSample == {0, 1, 9, 10, 99, 100}
MinutesSample == {0, 1, 9, 10, 59}
SecondsSample == {0, 1, 9, 10, 59}
MillisSample == {0, 1, 9, 10, 99, 230, 999}

FormatInputs ==
  (0..MaxMs) \cup
  {h * HourMs + m * MinuteMs + sec * SecondMs + x :
     h \in HoursSample, m \in MinutesSample, sec \in SecondsSample,
     x \in MillisSample}

DigitChars == <<"0", "1", "2", "3", "4", "5", "6", "7", "8", "9">>

(* String(n) of a non-negative integer: its decimal digits. *)
RECURSIVE String(_)
String(n) ==
  IF n < 10 THEN <<DigitChars[n + 1]>>
  ELSE String(n \div 10) \o <<DigitChars[(n % 10) + 1]>>

(* padStart that pads nothing. *)
padStart_none(str, width, ch) == str

(* str.padStart(width, ch) *)
RECURSIVE padStart(_, _, _)
padStart(str, width, ch) ==
  IF Len(str) >= width THEN str ELSE padStart(<<ch>> \o str, width, ch)

format(ms) ==
  LET negative == ms < 0
      abs == IF negative THEN -ms ELSE ms
      hours == abs \div HourMs
      minutes == (abs % HourMs) \div MinuteMs
      seconds == (abs % MinuteMs) \div SecondMs
      hundredths == (abs % SecondMs) \div HundredthMs
      h == IF hours > 0
             THEN padStart(String(hours), PadWidth, "0") \o <<":">>
             ELSE <<>>
      m == padStart(String(minutes), PadWidth, "0")
      sec == padStart(String(seconds), PadWidth, "0")
      hs == padStart(String(hundredths), PadWidth, "0")
  IN (IF negative THEN <<"-">> ELSE <<>>) \o h \o m \o <<":">> \o sec
       \o <<".">> \o hs

NothingShown ==
  /\ shownMs = 0
  /\ shownText = Null
  /\ shownNegText = Null

InitShown ==
  /\ shownMs \in FormatInputs
  /\ shownText = Null
  /\ shownNegText = Null

(* The duration is rendered. *)
RenderTime ==
  /\ shownText = Null
  /\ shownText' = Some(format(shownMs))
  /\ UNCHANGED <<shownMs, shownNegText>>
  /\ UNCHANGED <<swvars, svcvars, clvars>>

(* The negated duration is rendered. *)
RenderNegated ==
  /\ shownNegText = Null
  /\ shownNegText' = Some(format(-shownMs))
  /\ UNCHANGED <<shownMs, shownText>>
  /\ UNCHANGED <<swvars, svcvars, clvars>>

NextFormat ==
  \/ RenderTime
  \/ RenderNegated

(***************************************************************************)
(* The recipe client (RecipeManager).  A handler runs up to its fetch in   *)
(* one step; the rest of it runs when the response arrives, with the       *)
(* recipes and selectedRecipe of the render in which the handler started.  *)
(* The client is the only writer, and the service handles each of its      *)
(* requests in one step.  A text is the sequence of its characters.        *)
(***************************************************************************)
MaxClicks == 4      \* clicks on a recipe or a button in one behaviour
MaxCalls == 2       \* requests sent by the handlers in one behaviour
MaxInFlight == 2    \* requests of the client in flight together
MaxSeed == 2        \* recipes stored before the client is opened

Slots == 1..MaxInFlight

(* What the user types into the draft: blanks only, or a word. *)
TypedTitles == {<<" ">>, <<"C">>}
TypedContents == {<<"b">>}

EmptyForm == [title |-> <<>>, content |-> <<>>]

(* String.prototype.trim *)
RECURSIVE trimStart(_)
trimStart(s) == IF s # <<>> /\ Head(s) = " " THEN trimStart(Tail(s)) ELSE s

RECURSIVE trimEnd(_)
trimEnd(s) ==
  IF s # <<>> /\ s[Len(s)] = " " THEN trimEnd(SubSeq(s, 1, Len(s) - 1)) ELSE s

(* trim that leaves the text as it is. *)
trim_none(s) == s

trim(s) == trimEnd(trimStart(s))

(* The recipes stored by earlier sessions. *)
SeedRecipe(n) ==
  [id |-> n, title |-> <<"T">>, content |-> <<"a">>,
   createdAt |-> 0, updatedAt |-> 0]

SeedList(n) == [k \in 1..n |-> SeedRecipe(k)]

(* The messages of the handlers. *)
Required == "Title and content are required"
FailedTo(kind) ==
  CASE kind = "fetch"  -> "Failed to load recipes"
    [] kind = "create" -> "Failed to create recipe"
    [] kind = "update" -> "Failed to update recipe"
    [] kind = "delete" -> "Failed to delete recipe"

(* A slot with no request in it. *)
NoCall ==
  [kind |-> "none", pc |-> "idle", id |-> NoId, title |-> <<>>,
   content |-> <<>>, recipes |-> <<>>, selectedRecipe |-> Null,
   status |-> 0, body |-> <<>>]

(* response.ok *)
ok(status) == status >= 200 /\ status <= 299

InFlight == {s \in Slots : calls[s].kind # "none"}

(* The render shows the manager once loading is false, and in it the       *)
(* create editor, the edit editor, the recipe or the placeholder.          *)
Shown == ~loading
CreatingMode == Shown /\ isCreating
EditingMode == Shown /\ ~isCreating /\ isEditing /\ selectedRecipe # Null
DisplayMode ==
  Shown /\ ~isCreating /\ ~(isEditing /\ selectedRecipe # Null)
        /\ selectedRecipe # Null

InitClient ==
  /\ recipes = <<>>
  /\ selectedRecipe = Null
  /\ isEditing = FALSE
  /\ isCreating = FALSE
  /\ editForm = EmptyForm
  /\ loading = TRUE
  /\ error = Null
  /\ calls = [s \in Slots |-> NoCall]
  /\ sent = 0
  /\ clicks = 0
  /\ did = [op |-> "none", success |-> TRUE, id |-> NoId]
  /\ draftFrom = NoId
  /\ failed = FALSE

(* The service as the client finds it: some recipes stored, no request of  *)
(* another client.                                                         *)
InitSeeded ==
  /\ \E n \in 0..MaxSeed :
        /\ kv = (IF n = 0 THEN Null ELSE Some(SeedList(n)))
        /\ nextRid = n + 1
  /\ req = [c \in Clients |-> Idle]
  /\ now = 0
  /\ begun = 0
  /\ acked = {}
  /\ gone = {}

(* fetch(...): the request leaves with what the handler has captured. *)
Send(call) ==
  /\ \E s \in Slots :
        /\ calls[s].kind = "none"
        /\ \A r \in Slots : r < s => calls[r].kind # "none"
        /\ calls' = [calls EXCEPT ![s] =
                       [call EXCEPT !.pc = "sent", !.recipes = recipes,
                                    !.selectedRecipe = selectedRecipe]]

(* A click on what the render shows. *)
Click ==
  /\ Shown
  /\ clicks < MaxClicks
  /\ clicks' = clicks + 1

(* The mount effect: fetchRecipes. *)
MountFetch ==
  /\ did.op = "none"
  /\ Send([NoCall EXCEPT !.kind = "fetch"])
  /\ loading' = TRUE
  /\ did' = [op |-> "fetchRecipes", success |-> TRUE, id |-> NoId]
  /\ UNCHANGED <<recipes, selectedRecipe, isEditing, isCreating, editForm,
                 error, sent, clicks, draftFrom, failed>>
  /\ UNCHANGED <<swvars, svcvars, fmtvars>>

(* A click on a recipe of the list. *)
Select(k) ==
  /\ Click
  /\ Shown
  /\ k \in 1..Len(recipes)
  /\ selectedRecipe' = Some(recipes[k])
  /\ isEditing' = FALSE
  /\ isCreating' = FALSE
  /\ did' = [op |-> "select", success |-> TRUE, id |-> recipes[k].id]
  /\ UNCHANGED <<recipes, editForm, loading, error, calls, sent, draftFrom,
                 failed>>
  /\ UNCHANGED <<swvars, svcvars, fmtvars>>

(* "Edit", shown with the selected recipe. *)
StartEditing ==
  /\ Click
  /\ DisplayMode
  /\ editForm' = [title |-> selectedRecipe[1].title,
                  content |-> selectedRecipe[1].content]
  /\ isEditing' = TRUE
  /\ draftFrom' = selectedRecipe[1].id
  /\ did' = [op |-> "startEditing", success |-> TRUE, id |-> selectedRecipe[1].id]
  /\ UNCHANGED <<recipes, selectedRecipe, isCreating, loading, error, calls,
                 sent, failed>>
  /\ UNCHANGED <<swvars, svcvars, fmtvars>>

(* "+ New", always shown. *)
StartCreating ==
  /\ Click
  /\ Shown
  /\ editForm' = EmptyForm
  /\ isCreating' = TRUE
  /\ selectedRecipe' = Null
  /\ draftFrom' = NoId
  /\ did' = [op |-> "startCreating", success |-> TRUE, id |-> NoId]
  /\ UNCHANGED <<recipes, isEditing, loading, error, calls, sent, failed>>
  /\ UNCHANGED <<swvars, svcvars, fmtvars>>

(* "Cancel", shown in both editors. *)
CancelEdit ==
  /\ Click
  /\ CreatingMode \/ EditingMode
  /\ isEditing' = FALSE
  /\ isCreating' = FALSE
  /\ editForm' = EmptyForm
  /\ draftFrom' = NoId
  /\ did' = [op |-> "cancelEdit", success |-> TRUE, id |-> NoId]
  /\ UNCHANGED <<recipes, selectedRecipe, loading, error, calls, sent, failed>>
  /\ UNCHANGED <<swvars, svcvars, fmtvars>>

(* The inputs of both editors: setEditForm({...editForm, title}) and       *)
(* setEditForm({...editForm, content}).                                    *)
TypeTitle(text) ==
  /\ CreatingMode \/ EditingMode
  /\ editForm' = [editForm EXCEPT !.title = text]
  /\ did' = [op |-> "type", success |-> TRUE, id |-> NoId]
  /\ UNCHANGED <<recipes, selectedRecipe, isEditing, isCreating, loading,
                 error, calls, sent, clicks, draftFrom, failed>>
  /\ UNCHANGED <<swvars, svcvars, fmtvars>>

TypeContent(text) ==
  /\ CreatingMode \/ EditingMode
  /\ editForm' = [editForm EXCEPT !.content = text]
  /\ did' = [op |-> "type", success |-> TRUE, id |-> NoId]
  /\ UNCHANGED <<recipes, selectedRecipe, isEditing, isCreating, loading,
                 error, calls, sent, clicks, draftFrom, failed>>
  /\ UNCHANGED <<swvars, svcvars, fmtvars>>

(* "Create Recipe": createRecipe up to its fetch. *)
CreateRecipe ==
  /\ Click
  /\ CreatingMode
  /\ IF trim(editForm.title) = <<>> \/ trim(editForm.content) = <<>>
       THEN /\ error' = Some(Required)
            /\ did' = [op |-> "createRecipe", success |-> FALSE, id |-> NoId]
            /\ UNCHANGED <<calls, sent>>
       ELSE /\ sent < MaxCalls
            /\ Send([NoCall EXCEPT !.kind = "create",
                                   !.title = editForm.title,
                                   !.content = editForm.content])
            /\ sent' = sent + 1
            /\ did' = [op |-> "createRecipe", success |-> TRUE, id |-> NoId]
            /\ UNCHANGED error
  /\ UNCHANGED <<recipes, selectedRecipe, isEditing, isCreating, editForm,
                 loading, draftFrom, failed>>
  /\ UNCHANGED <<swvars, svcvars, fmtvars>>

(* "Save Changes": updateRecipe up to its fetch. *)
UpdateRecipe ==
  /\ Click
  /\ EditingMode
  /\ IF \/ selectedRecipe = Null
        \/ trim(editForm.title) = <<>>
        \/ trim(editForm.content) = <<>>
       THEN /\ error' = Some(Required)
            /\ did' = [op |-> "updateRecipe", success |-> FALSE, id |-> NoId]
            /\ UNCHANGED <<calls, sent>>
       ELSE /\ sent < MaxCalls
            /\ Send([NoCall EXCEPT !.kind = "update",
                                   !.id = selectedRecipe[1].id,
                                   !.title = editForm.title,
                                   !.content = editForm.content])
            /\ sent' = sent + 1
            /\ did' = [op |-> "updateRecipe", success |-> TRUE,
                       id |-> selectedRecipe[1].id]
            /\ UNCHANGED error
  /\ UNCHANGED <<recipes, selectedRecipe, isEditing, isCreating, editForm,
                 loading, draftFrom, failed>>
  /\ UNCHANGED <<swvars, svcvars, fmtvars>>

(* "Delete" of the edit editor: deleteRecipe(selectedRecipe.id) up to its  *)
(* fetch; confirm() is the user's answer.                                  *)
DeleteRecipe(confirmed) ==
  /\ Click
  /\ EditingMode
  /\ IF ~confirmed
       THEN /\ did' = [op |-> "deleteRecipe", success |-> FALSE,
                       id |-> selectedRecipe[1].id]
            /\ UNCHANGED <<calls, sent>>
       ELSE /\ sent < MaxCalls
            /\ Send([NoCall EXCEPT !.kind = "delete",
                                   !.id = selectedRecipe[1].id])
            /\ sent' = sent + 1
            /\ did' = [op |-> "deleteRecipe", success |-> TRUE,
                       id |-> selectedRecipe[1].id]
  /\ UNCHANGED <<recipes, selectedRecipe, isEditing, isCreating, editForm,
                 loading, error, draftFrom, failed>>
  /\ UNCHANGED <<swvars, svcvars, fmtvars>>

(* The service handles a request of the client: the route handler as a     *)
(* whole.  The client sends title and content only when they are not       *)
(* empty, and always an id.                                                *)
Answer(s, status, body) ==
  calls' = [calls EXCEPT ![s] = [@ EXCEPT !.pc = "answered",
                                          !.status = status, !.body = body]]

(* What a route handler leaves alone. *)
ServeFrame ==
  /\ UNCHANGED <<recipes, selectedRecipe, isEditing, isCreating, editForm,
                 loading, error, sent, clicks, did, draftFrom, failed>>
  /\ UNCHANGED <<req, now, begun, acked, gone>>
  /\ UNCHANGED <<swvars, fmtvars>>

ServeGET(s) ==
  /\ calls[s].kind = "fetch" /\ calls[s].pc = "sent"
  /\ Answer(s, 200, Stored)
  /\ UNCHANGED <<kv, nextRid>>
  /\ ServeFrame

ServePOST(s) ==
  /\ calls[s].kind = "create" /\ calls[s].pc = "sent"
  /\ LET newRecipe == [id |-> nextRid, title |-> calls[s].title,
                       content |-> calls[s].content,
                       createdAt |-> now, updatedAt |-> now]
     IN /\ kv' = Some(push(Stored, newRecipe))
        /\ Answer(s, 201, <<newRecipe>>)
  /\ nextRid' = nextRid + 1
  /\ ServeFrame

ServePUT(s) ==
  /\ calls[s].kind = "update" /\ calls[s].pc = "sent"
  /\ LET index == findIndex(Stored, calls[s].id)
     IN IF index = 0
          THEN Answer(s, 404, <<>>) /\ UNCHANGED kv
          ELSE LET record == updated(Stored[index], calls[s].title,
                                     calls[s].content, now)
               IN /\ kv' = Some([Stored EXCEPT ![index] = record])
                  /\ Answer(s, 200, <<record>>)
  /\ UNCHANGED nextRid
  /\ ServeFrame

ServeDELETE(s) ==
  /\ calls[s].kind = "delete" /\ calls[s].pc = "sent"
  /\ LET filtered == filteredRecipes(Stored, calls[s].id)
     IN IF Len(filtered) = Len(Stored)
          THEN Answer(s, 404, <<>>) /\ UNCHANGED kv
          ELSE kv' = Some(filtered) /\ Answer(s, 200, <<>>)
  /\ UNCHANGED nextRid
  /\ ServeFrame

(* The store fails: the handler's catch answers 500. *)
ServeFails(s) ==
  /\ calls[s].kind # "none" /\ calls[s].pc = "sent"
  /\ Answer(s, 500, <<>>)
  /\ UNCHANGED <<kv, nextRid>>
  /\ ServeFrame

(* The response has arrived with an OK status: the rest of the try block. *)
Arrived(s, kind) ==
  /\ calls[s].kind = kind
  /\ calls[s].pc = "answered"
  /\ ok(calls[s].status)
  /\ calls' = [calls EXCEPT ![s] = NoCall]
  /\ error' = Null
  /\ UNCHANGED <<sent, clicks, failed>>
  /\ UNCHANGED <<swvars, svcvars, fmtvars>>

FetchOk(s) ==
  /\ Arrived(s, "fetch")
  /\ recipes' = calls[s].body
  /\ loading' = FALSE
  /\ did' = [op |-> "fetched", success |-> TRUE, id |-> NoId]
  /\ UNCHANGED <<selectedRecipe, isEditing, isCreating, editForm, draftFrom>>

CreateOk(s) ==
  /\ Arrived(s, "create")
  /\ recipes' = Append(calls[s].recipes, calls[s].body[1])
  /\ selectedRecipe' = Some(calls[s].body[1])
  /\ isCreating' = FALSE
  /\ editForm' = EmptyForm
  /\ draftFrom' = NoId
  /\ did' = [op |-> "created", success |-> TRUE, id |-> calls[s].body[1].id]
  /\ UNCHANGED <<isEditing, loading>>

UpdateOk(s) ==
  /\ Arrived(s, "update")
  /\ recipes' = [k \in 1..Len(calls[s].recipes) |->
                   IF calls[s].recipes[k].id = calls[s].body[1].id
                     THEN calls[s].body[1] ELSE calls[s].recipes[k]]
  /\ selectedRecipe' = Some(calls[s].body[1])
  /\ isEditing' = FALSE
  /\ did' = [op |-> "updated", success |-> TRUE, id |-> calls[s].id]
  /\ UNCHANGED <<isCreating, editForm, loading, draftFrom>>

DeleteOk(s) ==
  /\ Arrived(s, "delete")
  /\ recipes' = SelectSeq(calls[s].recipes, LAMBDA r : r.id # calls[s].id)
  /\ selectedRecipe' =
       IF calls[s].selectedRecipe # Null
            /\ calls[s].selectedRecipe[1].id = calls[s].id
         THEN Null ELSE selectedRecipe
  /\ did' = [op |-> "deleted", success |-> TRUE, id |-> calls[s].id]
  /\ UNCHANGED <<isEditing, isCreating, editForm, loading, draftFrom>>

(* A catch block that also leaves the editor and drops the draft. *)
Catch_leavesEditor(s) ==
  /\ calls' = [calls EXCEPT ![s] = NoCall]
  /\ error' = Some(FailedTo(calls[s].kind))
  /\ loading' = IF calls[s].kind = "fetch" THEN FALSE ELSE loading
  /\ failed' = TRUE
  /\ isEditing' = FALSE
  /\ isCreating' = FALSE
  /\ editForm' = EmptyForm
  /\ UNCHANGED <<recipes, selectedRecipe, sent, clicks, draftFrom>>
  /\ UNCHANGED <<swvars, svcvars, fmtvars>>

(* The catch block: it sets the message, and the finally block of         *)
(* fetchRecipes ends the loading.                                          *)
Catch(s) ==
  /\ calls' = [calls EXCEPT ![s] = NoCall]
  /\ error' = Some(FailedTo(calls[s].kind))
  /\ loading' = IF calls[s].kind = "fetch" THEN FALSE ELSE loading
  /\ failed' = TRUE
  /\ UNCHANGED <<recipes, selectedRecipe, isEditing, isCreating, editForm,
                 sent, clicks, draftFrom>>
  /\ UNCHANGED <<swvars, svcvars, fmtvars>>

(* fetch rejects: the request or its response was lost on the network. *)
Rejected(s) ==
  /\ calls[s].kind # "none"
  /\ Catch(s)
  /\ did' = [op |-> "rejected", success |-> FALSE, id |-> calls[s].id]

(* The response has arrived with a status that is not OK: the throw. *)
NotOk(s) ==
  /\ calls[s].kind # "none"
  /\ calls[s].pc = "answered"
  /\ ~ok(calls[s].status)
  /\ Catch(s)
  /\ did' = [op |-> "notOk", success |-> FALSE, id |-> calls[s].id]

NextClient ==
  \/ MountFetch
  \/ \E k \in 1..(MaxSeed + MaxCalls) : Select(k)
  \/ StartEditing
  \/ StartCreating
  \/ CancelEdit
  \/ \E text \in TypedTitles : TypeTitle(text)
  \/ \E text \in TypedContents : TypeContent(text)
  \/ CreateRecipe
  \/ UpdateRecipe
  \/ \E confirmed \in BOOLEAN : DeleteRecipe(confirmed)
  \/ \E s \in Slots : ServeGET(s)
  \/ \E s \in Slots : ServePOST(s)
  \/ \E s \in Slots : ServePUT(s)
  \/ \E s \in Slots : ServeDELETE(s)
  \/ \E s \in Slots : ServeFails(s)
  \/ \E s \in Slots : FetchOk(s)
  \/ \E s \in Slots : CreateOk(s)
  \/ \E s \in Slots : UpdateOk(s)
  \/ \E s \in Slots : DeleteOk(s)
  \/ \E s \in Slots : Rejected(s)
  \/ \E s \in Slots : NotOk(s)

(***************************************************************************)
(* The specifications.                                                     *)
(***************************************************************************)
vars == <<swvars, svcvars, fmtvars, clvars>>

Init == InitSW /\ InitService /\ NothingShown /\ InitClient

InitFormat == InitSW /\ InitService /\ InitShown /\ InitClient

InitOpened == InitSW /\ InitSeeded /\ NothingShown /\ InitClient

Spec == Init /\ [][Next]_vars

SpecService == Init /\ [][NextService]_vars

SpecFormat == InitFormat /\ [][NextFormat]_vars

SpecClient == InitOpened /\ [][NextClient]_vars

(***************************************************************************)
(* Properties of the stopwatch page.                                       *)
(***************************************************************************)
Target(list, id) == list[IndexOf(list, id)]

(* C1: in every reachable state each stopwatch of the list has isRunning   *)
(* true exactly when startedAt is not null.                                *)
C1_RunningIffStarted ==
  \A k \in 1..Len(stopwatches) :
     stopwatches[k].isRunning <=> (stopwatches[k].startedAt # Null)

(* One stopwatch running and one stopped with time on it, the last handler *)
(* having been a reset of a running stopwatch.                             *)
C1_Witness ==
  /\ Len(stopwatches) = 2
  /\ \E k \in 1..2 : stopwatches[k].isRunning /\ stopwatches[k].startedAt # Null
  /\ \E k \in 1..2 : ~stopwatches[k].isRunning
  /\ last.op = "reset" /\ last.was = "running"

(* C4: the elapsed of a stopped stopwatch is its elapsed at load, creation *)
(* or last reset plus the sum, over the running intervals completed since, *)
(* of (time of the stop - time of the start); a running stopwatch still    *)
(* carries the sum of the completed intervals and the start of this one.   *)
C4_ElapsedIsSumOfIntervals ==
  \A k \in 1..Len(stopwatches) :
     LET sw == stopwatches[k] IN
       /\ sw.elapsed = acc[sw.id]
       /\ sw.isRunning => sw.startedAt = runStart[sw.id]

(* start, stop, start, stop done: the second stop has just been taken on a *)
(* stopwatch that carried the time of an earlier interval, and has added   *)
(* the time of the second interval to it.                                  *)
C4_Witness ==
  /\ last.op = "stop" /\ last.was = "running"
  /\ last.pre = 1
  /\ ~Target(stopwatches, last.id).isRunning
  /\ Target(stopwatches, last.id).elapsed = 2

(* C5: every rendered value is elapsed for a stopped stopwatch and         *)
(* elapsed + (time of the render - startedAt) for a running one, and the   *)
(* display refresh changes neither the list nor the stored slot.           *)
C5_Rendered ==
  /\ Len(display) = Len(stopwatches)
  /\ \A k \in 1..Len(stopwatches) :
        LET sw == stopwatches[k] IN
          display[k] = IF sw.isRunning
                         THEN sw.elapsed + (renderedAt - sw.startedAt[1])
                         ELSE sw.elapsed

C5_ComputedElapsed ==
  /\ []C5_Rendered
  /\ [][last'.op = "tick" => stopwatches' = stopwatches /\ slot' = slot]_vars

(* A refresh has just rendered a running stopwatch that already carries    *)
(* accumulated time, some time after its start, next to a stopped one.     *)
C5_Witness ==
  /\ last.op = "tick"
  /\ \E k \in 1..Len(stopwatches) :
        /\ stopwatches[k].isRunning
        /\ stopwatches[k].elapsed # 0
        /\ renderedAt # stopwatches[k].startedAt[1]
  /\ \E k \in 1..Len(stopwatches) : ~stopwatches[k].isRunning

(* C6 as claimed: for a stopwatch that is running before and after a step, *)
(* the value rendered after the step is not smaller than the value         *)
(* rendered before it.                                                     *)
C6_DisplayNeverDecreases ==
  [][\A i \in IdsOf(stopwatches) \cap IdsOf(stopwatches') :
       (Target(stopwatches, i).isRunning /\ Target(stopwatches', i).isRunning)
         => display'[IndexOf(stopwatches', i)] >= display[IndexOf(stopwatches, i)]
    ]_vars

(* C6: for a stopwatch that is running before and after a step, the value  *)
(* rendered after the step is not smaller than the value rendered before   *)
(* it, provided the clock reading of the later render is not smaller than  *)
(* the clock reading of the earlier one.                                   *)
C6_DisplayFollowsClock ==
  [][\A i \in IdsOf(stopwatches) \cap IdsOf(stopwatches') :
       ( /\ Target(stopwatches, i).isRunning
         /\ Target(stopwatches', i).isRunning
         /\ renderedAt' >= renderedAt )
         => display'[IndexOf(stopwatches', i)] >= display[IndexOf(stopwatches, i)]
    ]_vars

(* The refresh has just rendered a running stopwatch at a clock reading    *)
(* later than its start: the value shown has grown since the start.        *)
C6_Witness ==
  /\ last.op = "tick"
  /\ \E k \in 1..Len(stopwatches) :
        /\ stopwatches[k].isRunning
        /\ renderedAt > stopwatches[k].startedAt[1]
        /\ display[k] > stopwatches[k].elapsed

(* C7: reset(id) leaves the stopwatch with that id with elapsed 0, not     *)
(* running, startedAt null, and the id and name it had; the list keeps its *)
(* length.                                                                 *)
C7_Reset ==
  [][last'.op = "reset" =>
       /\ Len(stopwatches') = Len(stopwatches)
       /\ \A k \in 1..Len(stopwatches) :
             stopwatches[k].id = last'.id =>
               stopwatches'[k] = [id |-> stopwatches[k].id,
                                  name |-> stopwatches[k].name,
                                  isRunning |-> FALSE,
                                  startedAt |-> Null,
                                  elapsed |-> 0]
    ]_vars

(* A reset has just been applied to a running, renamed stopwatch. *)
C7_Witness ==
  /\ last.op = "reset" /\ last.was = "running"
  /\ Target(stopwatches, last.id).name = "lap"

(* C8: start(id) on a running stopwatch or an unknown id leaves the whole  *)
(* list (and so startedAt of the running stopwatch) unchanged.             *)
C8_StartNoOp ==
  [][(last'.op = "start" /\ last'.was \in {"running", "absent"})
       => stopwatches' = stopwatches
    ]_vars

(* A second start has just been applied to a stopwatch that was started at *)
(* an earlier clock reading.                                               *)
C8_Witness ==
  /\ last.op = "start" /\ last.was = "running"
  /\ Target(stopwatches, last.id).startedAt # Some(clock)

(* C9: stop(id) on a stopped stopwatch or an unknown id leaves the whole   *)
(* list unchanged.                                                         *)
C9_StopNoOp ==
  [][(last'.op = "stop" /\ last'.was \in {"stopped", "absent"})
       => stopwatches' = stopwatches
    ]_vars

(* A stop has just been applied to a stopwatch that an earlier stop had    *)
(* already stopped, at a clock reading other than 0.                       *)
C9_Witness ==
  /\ last.op = "stop" /\ last.was = "stopped"
  /\ last.pre # 0
  /\ clock # 0

(* C16: add on a list of n stopwatches gives a list of n + 1 whose first n *)
(* entries are the old ones, unchanged and in order, and whose last entry  *)
(* has an id no entry had, the name "Stopwatch {n+1}", isRunning false,    *)
(* startedAt null and elapsed 0.                                           *)
C16_AddAppendsDefault ==
  [][(ops' # ops /\ last'.op = "add") =>
       LET n == Len(stopwatches) IN
         /\ Len(stopwatches') = n + 1
         /\ \A k \in 1..n : stopwatches'[k] = stopwatches[k]
         /\ stopwatches'[n + 1].id \notin IdsOf(stopwatches)
         /\ stopwatches'[n + 1].name = "Stopwatch " \o ToString(n + 1)
         /\ stopwatches'[n + 1].isRunning = FALSE
         /\ stopwatches'[n + 1].startedAt = Null
         /\ stopwatches'[n + 1].elapsed = 0
    ]_vars

(* An add has just made a third stopwatch next to a running one. *)
C16_Witness ==
  /\ last.op = "add"
  /\ Len(stopwatches) = 3
  /\ stopwatches[3].name = "Stopwatch 3"
  /\ \E k \in 1..2 : stopwatches[k].isRunning

(* C17: delete(id) of an id of the list gives the list without that one    *)
(* stopwatch, the others unchanged and in their order; delete(id) of an id *)
(* that is not in the list leaves the list unchanged.                      *)
C17_DeleteRemovesOne ==
  [][(ops' # ops /\ last'.op = "delete") =>
       IF last'.id \in IdsOf(stopwatches)
         THEN LET i == IndexOf(stopwatches, last'.id) IN
                /\ Len(stopwatches') = Len(stopwatches) - 1
                /\ \A k \in 1..(i - 1) : stopwatches'[k] = stopwatches[k]
                /\ \A k \in i..Len(stopwatches') :
                      stopwatches'[k] = stopwatches[k + 1]
         ELSE stopwatches' = stopwatches
    ]_vars

(* A delete has just removed the first of three stopwatches: the two that  *)
(* followed it are left.                                                   *)
C17_Witness ==
  /\ last.op = "delete" /\ last.was # "absent"
  /\ Len(stopwatches) = 2
  /\ \A k \in 1..2 : stopwatches[k].id > last.id

C19_InitialLoadKeepsStored ==
  /\ [][(phase = "init" /\ phase' = "mounted" /\ slot # Null)
          => pending' = parse(slot[1])]_vars
  /\ [][(phase = "mounted" /\ phase' = "ready") =>
          /\ stopwatches' = pending
          /\ last.was = "absent" =>
                /\ Len(stopwatches') = 1
                /\ stopwatches'[1] = [id |-> stopwatches'[1].id,
                                      name |-> "Stopwatch 1",
                                      isRunning |-> FALSE,
                                      startedAt |-> Null,
                                      elapsed |-> 0]
          /\ had # Null => stopwatches' = had[1]
       ]_vars

IdSeq(list) == [k \in 1..Len(list) |-> list[k].id]

(* C26: start, stop, reset and rename applied to one id leave every other  *)
(* stopwatch unchanged and keep the length of the list and the order of    *)
(* its ids; on a loaded page the set of ids changes only through add and   *)
(* delete; add keeps the ids already there in place and delete keeps the   *)
(* remaining ids in their order, so that no handler changes the id of a    *)
(* stopwatch.                                                              *)
C26_OthersUntouched ==
  [][(phase = "ready" /\ phase' = "ready") =>
       /\ (ops' # ops /\ last'.op \in {"start", "stop", "reset", "rename"}) =>
             /\ Len(stopwatches') = Len(stopwatches)
             /\ IdSeq(stopwatches') = IdSeq(stopwatches)
             /\ \A k \in 1..Len(stopwatches) :
                   stopwatches[k].id # last'.id => stopwatches'[k] = stopwatches[k]
       /\ IdsOf(stopwatches') # IdsOf(stopwatches) =>
             ops' # ops /\ last'.op \in {"add", "delete"}
       /\ (ops' # ops /\ last'.op = "add") =>
             IdSeq(stopwatches') = Append(IdSeq(stopwatches), last'.id)
       /\ (ops' # ops /\ last'.op = "delete") =>
             IdSeq(stopwatches') =
               SelectSeq(IdSeq(stopwatches), LAMBDA i : i # last'.id)
       /\ ops' = ops => stopwatches' = stopwatches
    ]_vars

(* A rename has just changed the second stopwatch of a list whose first    *)
(* stopwatch is running.                                                   *)
C26_Witness ==
  /\ last.op = "rename"
  /\ last.was # "absent"
  /\ Len(stopwatches) >= 2
  /\ stopwatches[2].id = last.id
  /\ stopwatches[2].name = "lap"
  /\ stopwatches[1].isRunning
  /\ stopwatches[1].name # "lap"

(***************************************************************************)
(* Properties of format.                                                   *)
(***************************************************************************)
(* The text as a string, for comparison with a literal. *)
RECURSIVE Text(_)
Text(chars) == IF chars = <<>> THEN "" ELSE Head(chars) \o Text(Tail(chars))

IsDigit(ch) == \E d \in 1..10 : DigitChars[d] = ch

(* The number a sequence of digit characters denotes. *)
RECURSIVE Value(_)
Value(chars) ==
  IF chars = <<>> THEN 0
  ELSE 10 * Value(SubSeq(chars, 1, Len(chars) - 1))
         + ((CHOOSE d \in 1..10 : DigitChars[d] = chars[Len(chars)]) - 1)

(* text is MM:SS.hh, or HH:MM:SS.hh with at least two hour digits and an   *)
(* hour count that is not zero, minutes and seconds below 60, and denotes  *)
(* ms truncated to a whole number of hundredths of a second.               *)
Renders(text, ms) ==
  LET n == Len(text)
      tail == SubSeq(text, n - 7, n)
      head == SubSeq(text, 1, n - 8)
      hh == IF head = <<>> THEN <<>> ELSE SubSeq(head, 1, Len(head) - 1)
  IN /\ n >= 8
     /\ IsDigit(tail[1]) /\ IsDigit(tail[2]) /\ tail[3] = ":"
     /\ IsDigit(tail[4]) /\ IsDigit(tail[5]) /\ tail[6] = "."
     /\ IsDigit(tail[7]) /\ IsDigit(tail[8])
     /\ Value(SubSeq(tail, 1, 2)) < 60
     /\ Value(SubSeq(tail, 4, 5)) < 60
     /\ head # <<>> =>
           /\ Len(head) >= 3
           /\ head[Len(head)] = ":"
           /\ \A k \in 1..Len(hh) : IsDigit(hh[k])
           /\ Value(hh) > 0
     /\ (head = <<>>) <=> (ms < 3600000)
     /\ Value(hh) * 3600000 + Value(SubSeq(tail, 1, 2)) * 60000
          + Value(SubSeq(tail, 4, 5)) * 1000 + Value(SubSeq(tail, 7, 8)) * 10
        = ms - (ms % 10)

(* format(ms) for a duration ms >= 0: the layout, and the three texts the  *)
(* specification gives.                                                    *)
FormatOfNonNegative ==
  shownText # Null =>
    /\ Renders(shownText[1], shownMs)
    /\ shownMs = 0 => Text(shownText[1]) = "00:00.00"
    /\ shownMs = 61230 => Text(shownText[1]) = "01:01.23"
    /\ shownMs = 3661000 => Text(shownText[1]) = "01:01:01.00"

(* C20 as claimed: for every ms >= 0, format(ms) is MM:SS.hh with a        *)
(* leading HH: exactly when the hour count is not zero, two digits each    *)
(* for minutes, seconds and hundredths, the hundredths truncated, and      *)
(* format(-ms) is "-" followed by format(ms); format(0) is "00:00.00",     *)
(* format(61230) is "01:01.23" and format(3661000) is "01:01:01.00".       *)
C20_FormatAsClaimed ==
  /\ FormatOfNonNegative
  /\ (shownText # Null /\ shownNegText # Null) =>
        shownNegText[1] = <<"-">> \o shownText[1]

(* C20: as claimed, with format(-ms) being "-" followed by format(ms) for  *)
(* every ms > 0: -0 is 0, and its text carries no sign.                    *)
C20_Format ==
  /\ FormatOfNonNegative
  /\ (shownText # Null /\ shownNegText # Null) =>
        IF shownMs > 0
          THEN shownNegText[1] = <<"-">> \o shownText[1]
          ELSE shownNegText[1] = shownText[1]

(* 1 hour, 1 minute, 1 second and its negation have both been rendered. *)
C20_Witness ==
  /\ shownMs = 3661000
  /\ shownText # Null /\ Text(shownText[1]) = "01:01:01.00"
  /\ shownNegText # Null /\ Text(shownNegText[1]) = "-01:01:01.00"

(***************************************************************************)
(* Properties of the recipe collection service.                            *)
(***************************************************************************)
InList(r, list) == \E k \in 1..Len(list) : list[k] = r

(* C2: when the only two requests made on the initially empty collection   *)
(* are two Creates with title and content present, whose store calls did   *)
(* not fail, then once both are answered both were answered 201 and the    *)
(* stored collection contains both new records.                            *)
C2_BothCreatesStored ==
  \A c1, c2 \in Clients :
     ( /\ c1 # c2
       /\ begun = 2
       /\ \A c \in {c1, c2} :
             /\ req[c].method = "POST"
             /\ req[c].pc = "done"
             /\ req[c].status \notin {400, 500} )
     => /\ req[c1].status = 201 /\ req[c2].status = 201
        /\ kv # Null
        /\ InList(req[c1].result, kv[1])
        /\ InList(req[c2].result, kv[1])

(* C3: a List answered 200 returns every recipe whose Create had been      *)
(* answered 201 before the List was requested and whose Delete has not     *)
(* been answered 200.                                                      *)
C3_AckedRecipesListed ==
  \A c \in Clients :
     (req[c].method = "GET" /\ req[c].pc = "done" /\ req[c].status = 200)
       => req[c].lost = {}

(* C10: when the only requests made on the initially empty collection are  *)
(* a Create answered 201 and then a List answered 200, the List returns    *)
(* exactly one record, with the submitted title and content, a generated   *)
(* id, and createdAt equal to updatedAt.                                   *)
C10_CreateThenList ==
  \A c1, c2 \in Clients :
     ( /\ begun = 2
       /\ req[c1].method = "POST" /\ req[c1].pc = "done" /\ req[c1].status = 201
       /\ req[c2].method = "GET" /\ req[c2].pc = "done" /\ req[c2].status = 200
       /\ req[c1].result.id \in req[c2].must )
     => /\ Len(req[c2].result) = 1
        /\ req[c2].result[1].title = req[c1].title
        /\ req[c2].result[1].content = req[c1].content
        /\ req[c2].result[1].id \in RecipeIds
        /\ req[c2].result[1].createdAt = req[c2].result[1].updatedAt

(* C11: a Create whose title or content is missing or empty is answered    *)
(* 400 as it arrives, never reaches the store, and the step that answers   *)
(* it leaves the stored collection as it was.                              *)
C11_Rejected(r) ==
  /\ r.method = "POST"
  /\ (r.title \in {Missing, ""} \/ r.content \in {Missing, ""})

C11_CreateWithoutFieldsIs400 ==
  /\ [](\A c \in Clients :
          C11_Rejected(req[c]) => req[c].pc = "done" /\ req[c].status = 400)
  /\ [][\A c \in Clients :
          (req'[c] # req[c] /\ C11_Rejected(req'[c])) => kv' = kv
       ]_vars

(* A Create with a title and an empty content has been answered 400 while  *)
(* the collection holds a recipe.                                          *)
C11_Witness ==
  /\ Len(Stored) = 1
  /\ \E c \in Clients :
        /\ req[c].method = "POST" /\ req[c].pc = "done"
        /\ req[c].title \in Titles /\ req[c].content = ""
        /\ req[c].status = 400

(* C12: an Update with id, title and content present whose id is not in    *)
(* the collection it reads is answered 404, not 400, and the step that     *)
(* answers it leaves the stored collection as it was; only a failure of    *)
(* the store read itself is answered otherwise (500).                      *)
C12_UpdateUnknownIdIs404 ==
  [][\A c \in Clients :
       ( /\ req[c].method = "PUT" /\ req[c].pc = "get"
         /\ req'[c] # req[c]
         /\ req[c].id \notin RecipeIdsOf(Stored)
         /\ req'[c].status # 500 )
       => /\ req'[c].pc = "done"
          /\ req'[c].status = 404
          /\ kv' = kv
    ]_vars

(* An Update naming an id that is not in the one-recipe collection has     *)
(* been answered 404, and the recipe is still stored.                      *)
C12_Witness ==
  /\ Len(Stored) = 1
  /\ \E c \in Clients :
        /\ req[c].method = "PUT" /\ req[c].pc = "done"
        /\ req[c].status = 404
        /\ req[c].title \in Titles /\ req[c].content \in Contents
        /\ req[c].id # NoId /\ req[c].id # Stored[1].id

(* C13: a Delete that reads a collection holding only the recipe it names  *)
(* goes on to write the empty collection and is answered 200; a Delete     *)
(* whose id is not in the collection it reads (as after that Delete) is    *)
(* answered 404 and the step that answers it leaves the stored collection  *)
(* as it was.  The store calls are taken not to fail (else 500).           *)
C13_DeleteThenDeleteIs404 ==
  [][\A c \in Clients :
       /\ ( /\ req[c].method = "DELETE" /\ req[c].pc = "get"
            /\ req'[c] # req[c] /\ req'[c].status # 500
            /\ Len(Stored) = 1 /\ Stored[1].id = req[c].id )
          => req'[c].pc = "set" /\ req'[c].recipes = <<>> /\ kv' = kv
       /\ ( /\ req[c].method = "DELETE" /\ req[c].pc = "set"
            /\ req'[c] # req[c] /\ req'[c].status # 500 )
          => /\ req'[c].pc = "done" /\ req'[c].status = 200
             /\ kv' = Some(req[c].recipes)
       /\ ( /\ req[c].method = "DELETE" /\ req[c].pc = "get"
            /\ req'[c] # req[c] /\ req'[c].status # 500
            /\ req[c].id \notin RecipeIdsOf(Stored) )
          => req'[c].pc = "done" /\ req'[c].status = 404 /\ kv' = kv
    ]_vars

(* Three requests were made, one after the other: the Create of the only   *)
(* recipe, its Delete, answered 200, which left the empty collection, and  *)
(* a second Delete of the same id, answered 404.                           *)
C13_Witness ==
  /\ begun = 3 /\ nextRid = 2
  /\ kv = Some(<<>>)
  /\ \E c1, c2 \in Clients :
        /\ c1 # c2
        /\ req[c1].method = "DELETE" /\ req[c1].id = 1
        /\ req[c1].pc = "done" /\ req[c1].status = 200
        /\ req[c2].method = "DELETE" /\ req[c2].id = 1
        /\ req[c2].after = {1}
        /\ req[c2].pc = "done" /\ req[c2].status = 404

(* The position of the record with this id in a list of recipes. *)
PositionOf(list, id) == CHOOSE k \in 1..Len(list) : list[k].id = id

C15_UpdateChangesOnlyItsRecord ==
  [][\A c \in Clients :
       /\ ( /\ req[c].method = "PUT" /\ req[c].pc = "get"
            /\ req'[c] # req[c] /\ req'[c].status # 500
            /\ req[c].id \in RecipeIdsOf(Stored) )
          => /\ req'[c].pc = "set"
             /\ kv' = kv
             /\ Len(req'[c].recipes) = Len(Stored)
             /\ \A k \in 1..Len(Stored) :
                   IF Stored[k].id = req[c].id
                     THEN req'[c].recipes[k] =
                            [id |-> Stored[k].id,
                             title |-> req[c].title,
                             content |-> req[c].content,
                             createdAt |-> Stored[k].createdAt,
                             updatedAt |-> now]
                     ELSE req'[c].recipes[k] = Stored[k]
       /\ ( /\ req[c].method = "PUT" /\ req[c].pc = "set"
            /\ req'[c] # req[c] /\ req'[c].status # 500 )
          => /\ kv' = Some(req[c].recipes)
             /\ req'[c].pc = "done" /\ req'[c].status = 200
             /\ InList(req'[c].result, Stored')
             /\ req'[c].result.id = req[c].id
    ]_vars

(* Two recipes were created and the first was updated at a later time: it  *)
(* is stored with its createdAt and the later updatedAt, before the second *)
(* recipe, which is as it was created.                                     *)
C15_Witness ==
  /\ Len(Stored) = 2
  /\ Stored[1].id = 1 /\ Stored[2].id = 2
  /\ Stored[1].updatedAt > Stored[1].createdAt
  /\ Stored[2].updatedAt = Stored[2].createdAt
  /\ Stored[1].title # Stored[2].title
  /\ \E c \in Clients :
        /\ req[c].method = "PUT" /\ req[c].id = 1
        /\ req[c].pc = "done" /\ req[c].status = 200
        /\ req[c].result = Stored[1]
        /\ req[c].result.updatedAt = now

Blank(text) == \A k \in 1..Len(text) : text[k] = " "

(* What the handlers show of the client's state, the message apart. *)
Shows == <<recipes, selectedRecipe, isEditing, isCreating, editForm>>

(* C24: a click on "Create Recipe" or "Save Changes" with a draft whose     *)
(* title or content is empty or blank sends no request: it sets the error  *)
(* string to "Title and content are required" and leaves the list, the     *)
(* selection, the draft and the mode flags unchanged.  With a draft that   *)
(* has both, the click sends the draft as it is typed.                     *)
C24_EmptyDraftSendsNothing ==
  [][(clicks' # clicks /\ did'.op \in {"createRecipe", "updateRecipe"}) =>
       IF Blank(editForm.title) \/ Blank(editForm.content)
         THEN /\ calls' = calls
              /\ sent' = sent
              /\ error' = Some(Required)
              /\ Shows' = Shows
         ELSE \E s \in Slots :
                 /\ calls[s].kind = "none"
                 /\ calls'[s].kind =
                      (IF did'.op = "createRecipe" THEN "create" ELSE "update")
                 /\ calls'[s].title = editForm.title
                 /\ calls'[s].content = editForm.content
    ]_vars

(* "Create Recipe" was clicked with a title of one blank and a content:    *)
(* nothing is in flight and the message is shown.                          *)
C24_Witness ==
  /\ did.op = "createRecipe"
  /\ ~did.success
  /\ editForm = [title |-> <<" ">>, content |-> <<"b">>]
  /\ isCreating
  /\ error = Some(Required)
  /\ InFlight = {}
  /\ sent = 0

(* C25: a click on "Delete" that the user does not confirm sends no        *)
(* request; when the response of a delete arrives with an OK status the    *)
(* list no longer contains the id, the selection is cleared if the         *)
(* selected recipe is the deleted one, and a different selected recipe     *)
(* stays selected.                                                         *)
C25_DeleteClearsOwnSelection ==
  [][/\ (clicks' # clicks /\ did'.op = "deleteRecipe" /\ ~did'.success) =>
          calls' = calls /\ sent' = sent
     /\ \A s \in Slots :
          (calls[s].kind = "delete" /\ calls'[s].kind = "none"
             /\ did'.op = "deleted") =>
             /\ calls[s].id \notin RecipeIdsOf(recipes')
             /\ selectedRecipe' =
                  (IF selectedRecipe # Null /\ selectedRecipe[1].id = calls[s].id
                     THEN Null ELSE selectedRecipe)
    ]_vars

(* C23: when a request of the client fails, by a rejection of its fetch or *)
(* by a status that is not OK, the step that handles the failure sets the  *)
(* error string to the message of the request's handler and leaves the     *)
(* list, the selection, the draft and the mode flags as they are.          *)
C23_FailureLeavesState ==
  [][\A s \in Slots :
       ( /\ calls[s].kind # "none"
         /\ calls'[s].kind = "none"
         /\ \/ ~did'.success
            \/ calls[s].pc = "sent"
            \/ ~ok(calls[s].status) ) =>
          /\ error' = Some(FailedTo(calls[s].kind))
          /\ Shows' = Shows
    ]_vars

(* A create was answered 500: the message is shown, the create editor is   *)
(* still open with the draft, and the list is the one fetched.             *)
C23_Witness ==
  /\ did.op = "notOk"
  /\ error = Some("Failed to create recipe")
  /\ isCreating
  /\ editForm = [title |-> <<"C">>, content |-> <<"b">>]
  /\ Len(recipes) = 1
  /\ recipes = Stored

(* C27: in every reachable state isCreating and isEditing are not both     *)
(* true, and isEditing implies that a recipe is selected and that the      *)
(* draft was filled from the selected recipe.                              *)
C27_ModeFlagsConsistent ==
  /\ ~(isCreating /\ isEditing)
  /\ isEditing =>
        /\ selectedRecipe # Null
        /\ draftFrom = selectedRecipe[1].id

(* C28: when no request of the client is in flight and none of its         *)
(* requests has failed, the local list is the stored collection.           *)
C28_ListEqualsStored ==
  (~loading /\ InFlight = {} /\ ~failed) => recipes = Stored

====
